---- MODULE Spec2Model ----
(***************************************************************************)
(* GatherND / GatherNDGrad (CUDA execution provider).                      *)
(*                                                                         *)
(* Source: src/onnxruntime/core/providers/cuda/tensor/gather_nd.cc         *)
(*   CheckBatchDimensionsMatch          lines  11- 39                      *)
(*   ComputeImpl::operator()            lines  41- 65                      *)
(*   GatherNDBase::CommonComputeKernel  lines  67-126                      *)
(*   GatherND::ComputeInternal          lines 146-180                      *)
(*   GatherNDGrad::ComputeInternal      lines 210-248                      *)
(*                                                                         *)
(* The device kernels ComputeSliceOffsetsImpl, GatherNDImpl and            *)
(* GatherNDGradImpl live in gather_nd_impl.cu, which is not part of the    *)
(* sources at hand; they are modelled from sections 4.2, 4.4 and 4.5 of    *)
(* the specification.                                                      *)
(*                                                                         *)
(* Tensors are row-major: a shape is a sequence of extents and a buffer a  *)
(* sequence of elements; buffer position p (0-based) is element p+1.       *)
(*                                                                         *)
(* The input tensors are always present (the null checks of lines 150-151  *)
(* and 215-217 pass), their element type is one of the three registered    *)
(* floating-point types (lines 136, 201-202), and every index component is *)
(* in range, which the kernels do not check.  A step whose behaviour C++   *)
(* or CUDA leaves undefined (a division by zero, an access outside a       *)
(* buffer) sets ub and takes any of several outcomes.                      *)
(***************************************************************************)
EXTENDS Integers, Sequences, FiniteSets

(* ---------------------------------------------------------------- bounds *)

\* Largest extent of an axis (extents range over 0..MaxExtent).
MaxExtent == 2

\* Largest rank of a tensor.
MaxRank == 3

\* Largest number of elements of a tensor buffer (data, indices, updates, output).
MaxElems == 4

\* The callers hand CheckBatchDimensionsMatch two shapes (forward) or three (backward).
MaxShapes == 3

(* ----------------------------------------------------------- TensorShape *)

RECURSIVE Prod(_, _, _)
\* Product of the extents shape[lo..hi] (1-based, inclusive); 1 when empty.
Prod(shape, lo, hi) ==
  IF lo > hi THEN 1 ELSE shape[lo] * Prod(shape, lo + 1, hi)

\* TensorShape::Size()
Size(shape) == Prod(shape, 1, Len(shape))

\* TensorShape::SizeToDimension(d): product of axes [0, d)
SizeToDimension(shape, d) == Prod(shape, 1, d)

\* TensorShape::SizeFromDimension(d): product of axes [d, rank)
SizeFromDimension(shape, d) == Prod(shape, d + 1, Len(shape))

\* All shapes of rank <= r with extents in lo..MaxExtent.
ShapesOf(r, lo) == UNION {[1..n -> lo..MaxExtent] : n \in 0..r}

(* ------------------------------------------- CheckBatchDimensionsMatch *)

StatusOK == [kind |-> "OK", axis |-> -1, first |-> -1, other |-> -1, tensor |-> -1]

RankTooSmall(t) ==
  [kind |-> "RankTooSmall", axis |-> -1, first |-> -1, other |-> -1, tensor |-> t]

BatchMismatch(i, a, c, t) ==
  [kind |-> "BatchMismatch", axis |-> i, first |-> a, other |-> c, tensor |-> t]

RECURSIVE RankLoop(_, _, _)
\* Lines 14-22: the first tensor (0-based index t) whose rank is below
\* num_batch_dimensions, or -1.
RankLoop(num_batch_dimensions, tensor_shapes, t) ==
  IF t >= Len(tensor_shapes) THEN -1
  ELSE IF ~(num_batch_dimensions <= Len(tensor_shapes[t + 1])) THEN t
  ELSE RankLoop(num_batch_dimensions, tensor_shapes, t + 1)

RECURSIVE RankLoopStrict(_, _, _)
\* Faulty variant: the comparison of line 17 made strict.
RankLoopStrict(num_batch_dimensions, tensor_shapes, t) ==
  IF t >= Len(tensor_shapes) THEN -1
  ELSE IF ~(num_batch_dimensions < Len(tensor_shapes[t + 1])) THEN t
  ELSE RankLoopStrict(num_batch_dimensions, tensor_shapes, t + 1)

RECURSIVE BatchLoop(_, _, _, _)
\* Lines 27-36: batch axis outer (i), tensor inner (t, from 1), both 0-based.
BatchLoop(num_batch_dimensions, tensor_shapes, i, t) ==
  IF i >= num_batch_dimensions THEN StatusOK
  ELSE IF t >= Len(tensor_shapes) THEN BatchLoop(num_batch_dimensions, tensor_shapes, i + 1, 1)
  ELSE IF ~(tensor_shapes[1][i + 1] = tensor_shapes[t + 1][i + 1])
       THEN BatchMismatch(i, tensor_shapes[1][i + 1], tensor_shapes[t + 1][i + 1], t)
  ELSE BatchLoop(num_batch_dimensions, tensor_shapes, i, t + 1)

RECURSIVE BatchLoopTensorMajor(_, _, _, _)
\* Faulty variant: the loops of lines 27-28 exchanged (tensor outer, axis inner).
BatchLoopTensorMajor(num_batch_dimensions, tensor_shapes, i, t) ==
  IF t >= Len(tensor_shapes) THEN StatusOK
  ELSE IF i >= num_batch_dimensions THEN BatchLoopTensorMajor(num_batch_dimensions, tensor_shapes, 0, t + 1)
  ELSE IF ~(tensor_shapes[1][i + 1] = tensor_shapes[t + 1][i + 1])
       THEN BatchMismatch(i, tensor_shapes[1][i + 1], tensor_shapes[t + 1][i + 1], t)
  ELSE BatchLoopTensorMajor(num_batch_dimensions, tensor_shapes, i + 1, t)

\* Faulty variant: the mismatch search runs tensor by tensor instead of axis by axis.
CheckBatchDimensionsMatch_TensorMajor(num_batch_dimensions, tensor_shapes) ==
  LET bad == RankLoop(num_batch_dimensions, tensor_shapes, 0)
  IN IF bad # -1 THEN RankTooSmall(bad)
     ELSE IF Len(tensor_shapes) = 0 THEN StatusOK
     ELSE BatchLoopTensorMajor(num_batch_dimensions, tensor_shapes, 0, 1)

\* Faulty variant: the rank check of line 17 written with < instead of <=.
CheckBatchDimensionsMatch_StrictRank(num_batch_dimensions, tensor_shapes) ==
  LET bad == RankLoopStrict(num_batch_dimensions, tensor_shapes, 0)
  IN IF bad # -1 THEN RankTooSmall(bad)
     ELSE IF Len(tensor_shapes) = 0 THEN StatusOK
     ELSE BatchLoop(num_batch_dimensions, tensor_shapes, 0, 1)

\* Lines 11-39.
CheckBatchDimensionsMatch(num_batch_dimensions, tensor_shapes) ==
  LET bad == RankLoop(num_batch_dimensions, tensor_shapes, 0)
  IN IF bad # -1 THEN RankTooSmall(bad)
     ELSE IF Len(tensor_shapes) = 0 THEN StatusOK
     ELSE BatchLoop(num_batch_dimensions, tensor_shapes, 0, 1)

(* ------------------------------------------------------------ buffers *)

\* A buffer of n distinct positive elements 1, 2, ..., n.
Iota(n) == [i \in 1..n |-> i]

\* A buffer of n elements, all 1.
Ones(n) == [i \in 1..n |-> 1]

\* The element buffers the data tensor is drawn from.
DataTensors(n) == {Iota(n), Ones(n)}

\* What a read outside a buffer may return.
Garbage == {0, -1}

\* What an integer division by zero may leave in its result.
UndefVals == 0..MaxExtent

\* Faulty variant: the output buffer is left as allocated, not cleared.
ZeroFill_Skipped(n) == [i \in 1..n |-> -1]

\* Line 244: cudaMemsetAsync(output, 0, SizeInBytes).
ZeroFill(n) == [i \in 1..n |-> 0]

\* context->Output(0, shape): a fresh buffer whose contents are unspecified until
\* written; 0 stands for the not-yet-written element.
Allocate(n) == [i \in 1..n |-> 0]

(* ------------------------------------------------- CommonComputeKernel *)

\* Line 80
NumSliceDims(indices_shape) == indices_shape[Len(indices_shape)]

\* Line 81
NumSlices(indices_shape) == SizeToDimension(indices_shape, Len(indices_shape) - 1)

\* Line 82
SliceSize(input_shape, batch_dims_, num_slice_dims) ==
  SizeFromDimension(input_shape, batch_dims_ + num_slice_dims)

\* Line 83
NumBatches(input_shape, batch_dims_) == SizeToDimension(input_shape, batch_dims_)

\* Line 84
InputBatchStride(input_shape, batch_dims_) == SizeFromDimension(input_shape, batch_dims_)

RECURSIVE SizesLoop(_, _, _, _, _, _)
\* Lines 93-97: the right-to-left running product seeded at slice_size.
SizesLoop(input_shape, batch_dims_, num_slice_dims, i, running_product, sizes) ==
  IF i >= num_slice_dims THEN sizes
  ELSE SizesLoop(input_shape, batch_dims_, num_slice_dims, i + 1,
                 running_product * input_shape[batch_dims_ + num_slice_dims - 1 - i + 1],
                 [sizes EXCEPT ![num_slice_dims - 1 - i + 1] = running_product])

\* Lines 91-98: sizes_from_slice_dims, one stride per index component.
SizesFromSliceDims(input_shape, batch_dims_, num_slice_dims, slice_size_) ==
  SizesLoop(input_shape, batch_dims_, num_slice_dims, 0, slice_size_,
            [j \in 1..num_slice_dims |-> 0])

RECURSIVE RelativeOffset(_, _, _, _, _)
\* Sum over j in [0, k) of indices[s][j] * stride[j], from component j on.
RelativeOffset(indices_, sizes, num_slice_dims, s, j) ==
  IF j >= num_slice_dims THEN 0
  ELSE indices_[s * num_slice_dims + j + 1] * sizes[j + 1]
       + RelativeOffset(indices_, sizes, num_slice_dims, s, j + 1)

\* ComputeSliceOffsetsImpl, one slice: base + relative offset.
SliceOffset(indices_, sizes, num_slice_dims, input_batch_stride, batch_idx, s) ==
  batch_idx * input_batch_stride + RelativeOffset(indices_, sizes, num_slice_dims, s, 0)

\* ComputeSliceOffsetsImpl (lines 111-120 launch it): every offsets buffer the kernel
\* may produce.  batch_idx = s / num_slices_per_batch; with a zero divisor the
\* quotient is undefined and each slice may see any value.
ComputeSliceOffsets(indices_, sizes, num_slice_dims, input_batch_stride, num_slices, num_slices_per_batch_) ==
  IF num_slices_per_batch_ # 0
  THEN {[s \in 1..num_slices |->
           SliceOffset(indices_, sizes, num_slice_dims, input_batch_stride,
                       (s - 1) \div num_slices_per_batch_, s - 1)]}
  ELSE {[s \in 1..num_slices |->
           SliceOffset(indices_, sizes, num_slice_dims, input_batch_stride, u[s], s - 1)]
        : u \in [1..num_slices -> UndefVals]}

\* One logical unit per element of every slice.
Units(num_slices, slice_size_) == (0..(num_slices - 1)) \X (0..(slice_size_ - 1))

(* ------------------------------------------------------ shape inference *)

\* Lines 171-172: indices shape without its last axis, then the data axes from
\* last_indices_dimension on.
OutputShape(input_shape, indices_shape, batch_dims_) ==
  SubSeq(indices_shape, 1, Len(indices_shape) - 1)
  \o SubSeq(input_shape, batch_dims_ + NumSliceDims(indices_shape) + 1, Len(input_shape))

\* Lines 156-168 and 222-239: the checks before the output is requested.
Validate(batch_dims_, input_shape, indices_shape, tensor_shapes) ==
  IF Len(indices_shape) = 0 THEN "EmptyIndices"
  ELSE IF batch_dims_ + indices_shape[Len(indices_shape)] > Len(input_shape)
       THEN "IndexDepthExceedsRank"
  ELSE CheckBatchDimensionsMatch(batch_dims_, tensor_shapes).kind

(* -------------------------------------------------------------- inputs *)

RECURSIVE NonZeroSize(_, _)
\* Product of the extents shape[lo..] that are not zero.
NonZeroSize(shape, lo) ==
  IF lo > Len(shape) THEN 1
  ELSE (IF shape[lo] = 0 THEN 1 ELSE shape[lo]) * NonZeroSize(shape, lo + 1)

\* Tensor shapes whose non-zero extents multiply to at most MaxElems.
Shapes == {sh \in ShapesOf(MaxRank, 0) : NonZeroSize(sh, 1) <= MaxElems}

\* Shapes of the indices tensor.
IndexShapes == {sh \in ShapesOf(MaxRank - 1, 0) : NonZeroSize(sh, 1) <= MaxElems}

\* Values of the batch_dims attribute.
BatchDims == 0..(MaxRank - 1)

\* Index tensors whose components are all in range: component j of every tuple
\* lies in [0, extent of data axis batch_dims + j).
IndexTensors(input_shape, indices_shape, batch_dims_) ==
  LET k == NumSliceDims(indices_shape)
      n == Size(indices_shape)
  IN {ix \in [1..n -> 0..(MaxExtent - 1)] :
        \A p \in 1..n : ix[p] < input_shape[batch_dims_ + ((p - 1) % k) + 1]}

\* The shapes the updates tensor is drawn from: the forward output shape, that
\* shape without its last axis, and every shape of rank <= 1.
UpdateShapes(fwd_shape) ==
  {fwd_shape} \cup ShapesOf(1, 0)
  \cup (IF Len(fwd_shape) > 0 THEN {SubSeq(fwd_shape, 1, Len(fwd_shape) - 1)} ELSE {})

(* ---------------------------------------------------------------- state *)

VARIABLES
  training,              \* ENABLE_TRAINING of the build (lines 55, 141)
  pc,                    \* "idle", "running" (kernel in flight), "done", "crashed"
  op,                    \* "none", "gather", "grad": the operation invoked last
  batch_dims,            \* batch_dims_
  input_shape,           \* shape of data (gather) / the target shape (grad)
  indices_shape,
  indices,               \* the indices buffer
  data,                  \* the data buffer of the last gather
  update_shape,          \* shape of the updates tensor (grad)
  kernel_input,          \* what the kernel reads: data (gather) / updates (grad)
  output_shape,
  output,                \* the output buffer
  slice_size,
  num_slices_per_batch,
  offsets,               \* input_slice_offsets_buffer
  pending,               \* units of the launched kernel that have not run yet
  status,                \* the Status returned to the caller, "none" before
  log,                   \* what the invocation did, in order
  ub,                    \* the invocation has executed an undefined step
  roundtrip,             \* the grad invocation was fed the preceding gather's output
  chk_nb, chk_shapes, chk_result   \* stand-alone run of CheckBatchDimensionsMatch

vars == <<training, pc, op, batch_dims, input_shape, indices_shape, indices, data,
          update_shape, kernel_input, output_shape, output, slice_size,
          num_slices_per_batch, offsets, pending, status, log, ub, roundtrip,
          chk_nb, chk_shapes, chk_result>>

chkVars == <<chk_nb, chk_shapes, chk_result>>

ErrorKinds == {"RankTooSmall", "BatchMismatch", "EmptyIndices", "IndexDepthExceedsRank",
               "UnsupportedElementType", "GradientUnsupported"}

\* Output allocation, device copies and kernel launches, as they appear in log.
DeviceSteps == {"Output", "cudaMemsetAsync", "cudaMemcpyAsync",
                "ComputeSliceOffsetsImpl", "GatherNDImpl", "GatherNDGradImpl"}

Pending == [kind |-> "pending", axis |-> -1, first |-> -1, other |-> -1, tensor |-> -1]

Init ==
  /\ training \in BOOLEAN
  /\ pc = "idle"
  /\ op = "none"
  /\ batch_dims = 0
  /\ input_shape = <<>>
  /\ indices_shape = <<>>
  /\ indices = <<>>
  /\ data = <<>>
  /\ update_shape = <<>>
  /\ kernel_input = <<>>
  /\ output_shape = <<>>
  /\ output = <<>>
  /\ slice_size = 0
  /\ num_slices_per_batch = 0
  /\ offsets = <<>>
  /\ pending = {}
  /\ status = "none"
  /\ log = <<>>
  /\ ub = FALSE
  /\ roundtrip = FALSE
  /\ chk_nb = 0
  /\ chk_shapes = <<>>
  /\ chk_result = Pending

(* ------------------------------------------------------------ operations *)

\* A validation failure (lines 156-168, 222-239): the error is returned and
\* nothing else has happened.
Reject(kind) ==
  /\ pc' = "done"
  /\ status' = kind
  /\ log' = <<kind>>
  /\ output_shape' = <<>>
  /\ output' = <<>>
  /\ slice_size' = 0
  /\ num_slices_per_batch' = 0
  /\ offsets' = <<>>
  /\ pending' = {}
  /\ ub' = FALSE

\* ComputeImpl::operator() (lines 43-64) under t_disp.Invoke (lines 122-124): what
\* the dispatch appends to the log.
Dispatch(fwd) ==
  IF fwd THEN <<"GatherNDImpl">>
  ELSE IF training THEN <<"GatherNDGradImpl">>
  ELSE <<"GradientUnsupported">>

\* Lines 60-61 build a Status inside a function returning void and lines 124-125
\* drop whatever the dispatch produced: CommonComputeKernel returns Status::OK().
CommonComputeKernelStatus(fwd) == "OK"

\* GatherNDBase::CommonComputeKernel (lines 67-126).  log0 and out0 are the log and
\* the output buffer as the caller left them.
CommonComputeKernel(b, ish, kin, out0, xsh, idx, fwd, log0) ==
  LET k       == NumSliceDims(xsh)
      ns      == NumSlices(xsh)
      ss      == SliceSize(ish, b, k)
      nb      == NumBatches(ish, b)
      stride  == InputBatchStride(ish, b)
      sizes   == SizesFromSliceDims(ish, b, k, ss)
      runs    == fwd \/ training
  IN \/ \* line 85 with num_batches = 0: the division traps
        /\ nb = 0
        /\ pc' = "crashed"
        /\ status' = "none"
        /\ ub' = TRUE
        /\ log' = log0
        /\ output' = out0
        /\ slice_size' = ss
        /\ num_slices_per_batch' = 0
        /\ offsets' = <<>>
        /\ pending' = {}
     \/ \* line 85 onwards; with num_batches = 0 the quotient is any value
        \E q \in (IF nb = 0 THEN UndefVals ELSE {ns \div nb}) :
        \E offs \in ComputeSliceOffsets(idx, sizes, k, stride, ns, q) :
          /\ pc' = "running"
          /\ status' = CommonComputeKernelStatus(fwd)
          /\ ub' = (nb = 0 \/ (q = 0 /\ ns > 0))
          /\ log' = log0 \o <<"cudaMemcpyAsync", "ComputeSliceOffsetsImpl">> \o Dispatch(fwd)
          /\ output' = out0
          /\ slice_size' = ss
          /\ num_slices_per_batch' = q
          /\ offsets' = offs
          /\ pending' = IF runs THEN Units(ns, ss) ELSE {}

\* GatherND<TIndex>::ComputeInternal (lines 147-180).
GatherND_ComputeInternal(b, ish, xsh) ==
  LET v == Validate(b, ish, xsh, <<ish, xsh>>)
  IN /\ op' = "gather"
     /\ batch_dims' = b
     /\ input_shape' = ish
     /\ indices_shape' = xsh
     /\ update_shape' = <<>>
     /\ roundtrip' = FALSE
     /\ IF v # "OK"
        THEN /\ Reject(v)
             /\ indices' = <<>>
             /\ data' = <<>>
             /\ kernel_input' = <<>>
        ELSE LET shape == OutputShape(ish, xsh, b)
             IN /\ Size(shape) <= MaxElems
                /\ \E idx \in IndexTensors(ish, xsh, b), dat \in DataTensors(Size(ish)) :
                     /\ indices' = idx
                     /\ data' = dat
                     /\ kernel_input' = dat
                     /\ output_shape' = shape
                     /\ CommonComputeKernel(b, ish, dat, Allocate(Size(shape)), xsh, idx,
                                            TRUE, <<"Output">>)

\* GatherNDGrad<TIndex>::ComputeInternal (lines 211-248).
GatherNDGrad_ComputeInternal(b, ish, xsh, ush, idx, upd) ==
  LET v == Validate(b, ish, xsh, <<ish, xsh, ush>>)
  IN /\ op' = "grad"
     /\ batch_dims' = b
     /\ input_shape' = ish
     /\ indices_shape' = xsh
     /\ update_shape' = ush
     /\ indices' = idx
     /\ kernel_input' = upd
     /\ IF v # "OK"
        THEN Reject(v)
        ELSE /\ output_shape' = ish
             /\ CommonComputeKernel(b, ish, upd, ZeroFill(Size(ish)), xsh, idx,
                                    FALSE, <<"Output", "cudaMemsetAsync">>)

\* An invocation of GatherND on inputs drawn from the bounded sets.
InvokeGather ==
  /\ pc = "idle"
  /\ \E b \in BatchDims, ish \in Shapes, xsh \in IndexShapes :
       GatherND_ComputeInternal(b, ish, xsh)
  /\ UNCHANGED <<training, chkVars>>

\* An invocation of GatherNDGrad on inputs drawn from the bounded sets.
InvokeGrad ==
  /\ pc = "idle"
  /\ \E b \in BatchDims, ish \in Shapes, xsh \in IndexShapes :
       LET fwd_shape == IF Validate(b, ish, xsh, <<ish, xsh>>) = "OK"
                        THEN OutputShape(ish, xsh, b) ELSE <<>>
       IN /\ Size(fwd_shape) <= MaxElems
          /\ \E ush \in UpdateShapes(fwd_shape) :
               /\ Size(ush) <= MaxElems
               /\ \E idx \in (IF Validate(b, ish, xsh, <<ish, xsh, ush>>) = "OK"
                              THEN IndexTensors(ish, xsh, b) ELSE {<<>>}) :
                    GatherNDGrad_ComputeInternal(b, ish, xsh, ush, idx, Iota(Size(ush)))
  /\ data' = <<>>
  /\ roundtrip' = FALSE
  /\ UNCHANGED <<training, chkVars>>

\* GatherNDGrad fed the output of the gather that has just completed, with the
\* gather's data shape, indices and batch_dims.
InvokeGradRoundTrip ==
  /\ pc = "done"
  /\ op = "gather"
  /\ status = "OK"
  /\ GatherNDGrad_ComputeInternal(batch_dims, input_shape, indices_shape,
                                  output_shape, indices, output)
  /\ roundtrip' = TRUE
  /\ UNCHANGED <<training, data, chkVars>>

(* ---------------------------------------------------------------- kernels *)

\* GatherNDImpl: the source position of element e of a slice at offset off.
GatherSource(off, e) == off + e

\* GatherNDImpl, one unit: output[s * slice_size + e] = input[offsets[s] + e].
GatherUnit(s, e) ==
  /\ pc = "running"
  /\ op = "gather"
  /\ <<s, e>> \in pending
  /\ LET src == GatherSource(offsets[s + 1], e)
         dst == s * slice_size + e
     IN IF src >= 0 /\ src < Len(kernel_input)
        THEN /\ output' = [output EXCEPT ![dst + 1] = kernel_input[src + 1]]
             /\ ub' = ub
        ELSE /\ \E g \in Garbage : output' = [output EXCEPT ![dst + 1] = g]
             /\ ub' = TRUE
  /\ pending' = pending \ {<<s, e>>}
  /\ UNCHANGED <<training, pc, op, batch_dims, input_shape, indices_shape, indices, data,
                 update_shape, kernel_input, output_shape, slice_size,
                 num_slices_per_batch, offsets, status, log, roundtrip, chkVars>>

\* atomicAdd(address, v): the value left at the address.
AtomicAdd(old, v) == old + v

\* GatherNDGradImpl, one unit: atomically output[offsets[s] + e] += update[s * slice_size + e].
ScatterUnit(s, e) ==
  /\ pc = "running"
  /\ op = "grad"
  /\ <<s, e>> \in pending
  /\ LET src == s * slice_size + e
         dst == offsets[s + 1] + e
         inSrc == src < Len(kernel_input)
         inDst == dst >= 0 /\ dst < Len(output)
     IN \E v \in (IF inSrc THEN {kernel_input[src + 1]} ELSE Garbage) :
          /\ output' = IF inDst THEN [output EXCEPT ![dst + 1] = AtomicAdd(output[dst + 1], v)]
                       ELSE output
          /\ ub' = (ub \/ ~inSrc \/ ~inDst)
  /\ pending' = pending \ {<<s, e>>}
  /\ UNCHANGED <<training, pc, op, batch_dims, input_shape, indices_shape, indices, data,
                 update_shape, kernel_input, output_shape, slice_size,
                 num_slices_per_batch, offsets, status, log, roundtrip, chkVars>>

\* The stream has drained: every unit of the launched kernel has run.
Finish ==
  /\ pc = "running"
  /\ pending = {}
  /\ pc' = "done"
  /\ UNCHANGED <<training, op, batch_dims, input_shape, indices_shape, indices, data,
                 update_shape, kernel_input, output_shape, output, slice_size,
                 num_slices_per_batch, offsets, pending, status, log, ub, roundtrip,
                 chkVars>>

Next ==
  \/ InvokeGather
  \/ InvokeGrad
  \/ InvokeGradRoundTrip
  \/ \E u \in pending : GatherUnit(u[1], u[2])
  \/ \E u \in pending : ScatterUnit(u[1], u[2])
  \/ Finish

Spec == Init /\ [][Next]_vars

(* ------------------------------- CheckBatchDimensionsMatch on its own *)

\* The lists of shapes the validator is applied to.
ShapeLists == UNION {[1..n -> ShapesOf(MaxRank - 1, 1)] : n \in 0..MaxShapes}

InitCheck ==
  /\ training = TRUE
  /\ pc = "idle"
  /\ op = "none"
  /\ batch_dims = 0
  /\ input_shape = <<>>
  /\ indices_shape = <<>>
  /\ indices = <<>>
  /\ data = <<>>
  /\ update_shape = <<>>
  /\ kernel_input = <<>>
  /\ output_shape = <<>>
  /\ output = <<>>
  /\ slice_size = 0
  /\ num_slices_per_batch = 0
  /\ offsets = <<>>
  /\ pending = {}
  /\ status = "none"
  /\ log = <<>>
  /\ ub = FALSE
  /\ roundtrip = FALSE
  /\ chk_nb \in 0..MaxRank
  /\ chk_shapes \in ShapeLists
  /\ chk_result = Pending

\* CheckBatchDimensionsMatch applied to the drawn arguments.
ApplyCheck ==
  /\ chk_result = Pending
  /\ chk_result' = CheckBatchDimensionsMatch(chk_nb, chk_shapes)
  /\ UNCHANGED <<training, pc, op, batch_dims, input_shape, indices_shape, indices, data,
                 update_shape, kernel_input, output_shape, output, slice_size,
                 num_slices_per_batch, offsets, pending, status, log, ub, roundtrip,
                 chk_nb, chk_shapes>>

NextCheck == ApplyCheck

SpecCheck == InitCheck /\ [][NextCheck]_vars

(* ============================================================== claims *)

(* The quantities of the data model, written from their definitions: extents
   are taken from the shapes of the invocation recorded in the state. *)

\* The invocation passed every check before the output was requested.
ValidationPassed == Len(log) > 0 /\ log[1] = "Output"

\* k: the length of an index tuple.
TupleLen == indices_shape[Len(indices_shape)]

\* Product of the indices extents of all axes but the last.
SliceCount == Prod(indices_shape, 1, Len(indices_shape) - 1)

\* Product of the target extents of the axes [b + k, rank).
SliceLen == Prod(input_shape, batch_dims + TupleLen + 1, Len(input_shape))

\* Product of the target extents of the axes [0, b).
BatchCount == Prod(input_shape, 1, batch_dims)

\* Product of the target extents of the axes [b, rank).
BatchStride == Prod(input_shape, batch_dims + 1, Len(input_shape))

\* stride[j]: product of the target extents strictly after axis b + j.
Stride(j) == Prod(input_shape, batch_dims + j + 2, Len(input_shape))

\* floor(s / num_slices_per_batch) has a value.
BatchIndexDefined == BatchCount # 0 /\ SliceCount \div BatchCount # 0

RECURSIVE TupleSum(_, _)
\* Sum over the components j, j+1, ..., k-1 of indices[s][j] * stride[j].
TupleSum(s, j) ==
  IF j >= TupleLen THEN 0
  ELSE indices[s * TupleLen + j + 1] * Stride(j) + TupleSum(s, j + 1)

\* offset(s) of the data model; used only where BatchIndexDefined.
Offset(s) ==
  (s \div (SliceCount \div BatchCount)) * BatchStride + TupleSum(s, 0)

\* The index tuple of slice s.
Tuple(s) == [j \in 1..TupleLen |-> indices[s * TupleLen + j]]

NoDuplicateTuples ==
  \A s, t \in 0..(SliceCount - 1) : s # t => Tuple(s) # Tuple(t)

RECURSIVE SumOver(_, _)
\* Sum of the update elements read by the units of set U.
SumOver(U, buf) ==
  IF U = {} THEN 0
  ELSE LET u == CHOOSE x \in U : TRUE
       IN buf[u[1] * slice_size + u[2] + 1] + SumOver(U \ {u}, buf)

\* The units of the launched scatter kernel whose destination is position x.
UnitsTargeting(x) ==
  {u \in Units(Len(offsets), slice_size) : offsets[u[1] + 1] + u[2] = x}

\* Some axis of the target/data or of the indices has extent zero.
HasZeroExtent ==
  \/ \E i \in 1..Len(input_shape) : input_shape[i] = 0
  \/ \E i \in 1..Len(indices_shape) : indices_shape[i] = 0

\* C1: every gather that passed validation (indices in range, any batch_dims) ends
\* with output[s*slice_size + e] = data[offset(s) + e] for every slice s and every
\* e < slice_size, offset(s) being floor(s / num_slices_per_batch) * batch_stride
\* plus the sum of indices[s][j] * stride[j].
C1_GatherCopiesAddressedSlices ==
  (op = "gather" /\ ValidationPassed /\ pc \in {"done", "crashed"}) =>
     /\ pc = "done"
     /\ status = "OK"
     /\ Len(output) = SliceCount * SliceLen
     /\ \A s \in 0..(SliceCount - 1), e \in 0..(SliceLen - 1) :
          /\ BatchIndexDefined
          /\ Offset(s) + e < Len(data)
          /\ output[s * SliceLen + e + 1] = data[Offset(s) + e + 1]

\* C1 on the invocations in which num_slices / num_batches and
\* s / num_slices_per_batch have a value (no division by zero): there the output
\* is the addressed slices.
C1_HoldsWhereQuotientsDefined ==
  (op = "gather" /\ ValidationPassed /\ pc \in {"done", "crashed"}
     /\ BatchCount # 0 /\ (SliceCount > 0 => SliceCount \div BatchCount # 0)) =>
     /\ pc = "done"
     /\ status = "OK"
     /\ ~ub
     /\ Len(output) = SliceCount * SliceLen
     /\ \A s \in 0..(SliceCount - 1), e \in 0..(SliceLen - 1) :
          /\ Offset(s) + e < Len(data)
          /\ output[s * SliceLen + e + 1] = data[Offset(s) + e + 1]

\* The positions of data addressed by some index tuple.
Addressed ==
  {Offset(u[1]) + u[2] : u \in (0..(SliceCount - 1)) \X (0..(SliceLen - 1))}

\* C2 on training builds with batch_dims < rank(indices) and num_batches # 0: there
\* the round trip reconstructs data at the addressed elements, zero elsewhere.
C2_HoldsWhereBatchDimsBelowIndicesRank ==
  (roundtrip /\ training /\ pc \in {"done", "crashed"} /\ NoDuplicateTuples
     /\ batch_dims < Len(indices_shape) /\ BatchCount # 0) =>
     /\ pc = "done"
     /\ status = "OK"
     /\ ~ub
     /\ output_shape = input_shape
     /\ Len(output) = Len(data)
     /\ \A x \in 1..Len(data) :
          output[x] = IF SliceCount * SliceLen > 0 /\ (x - 1) \in Addressed
                      THEN data[x] ELSE 0

\* C2: round trip.  When the indices hold no duplicate tuples, gather_grad applied
\* to shape(data), the indices and the gather's output yields an array of
\* shape(data) equal to data at every addressed element and zero elsewhere.
C2_RoundTripReconstructsData ==
  (roundtrip /\ pc \in {"done", "crashed"} /\ NoDuplicateTuples) =>
     /\ pc = "done"
     /\ status = "OK"
     /\ output_shape = input_shape
     /\ Len(output) = Len(data)
     /\ SliceCount * SliceLen > 0 => BatchIndexDefined
     /\ \A x \in 1..Len(data) :
          output[x] = IF SliceCount * SliceLen > 0 /\ (x - 1) \in Addressed
                      THEN data[x] ELSE 0

\* C3: when the scatter-accumulate kernel has run all its units, in whatever order
\* the atomic additions interleaved, every destination element equals the sum of
\* the update elements whose unit targets it (zero when none does), provided every
\* access of the kernel fell inside its buffers.
C3_AtomicAccumulationExact ==
  (op = "grad" /\ training /\ pc = "done" /\ status = "OK" /\ ~ub) =>
     \A x \in 1..Len(output) :
        output[x] = SumOver(UnitsTargeting(x - 1), kernel_input)

\* C3 witness: two units of different slices have added into one destination
\* element and the kernel has finished.
C3_Witness ==
  /\ op = "grad" /\ training /\ pc = "done" /\ status = "OK" /\ ~ub
  /\ \E x \in 1..Len(output) :
       /\ Cardinality(UnitsTargeting(x - 1)) >= 2
       /\ output[x] >= 3

\* C4: every error is detected before the output is requested and before any
\* device copy, memset or kernel launch, and it is the status returned.
C4_ErrorsDetectedBeforeAnyLaunch ==
  \A i \in 1..Len(log) :
     log[i] \in ErrorKinds =>
        /\ \A j \in 1..(i - 1) : log[j] \notin DeviceSteps
        /\ status = log[i]

\* C5: outside training mode a gather_grad that reaches the kernel dispatch
\* returns GradientUnsupported.
C5_GradientUnsupportedReturned ==
  (op = "grad" /\ ~training /\ ValidationPassed /\ pc \in {"running", "done"}) =>
     status = "GradientUnsupported"

\* C8: an invocation that passed validation with some axis of extent zero
\* completes successfully without an undefined step, and its output holds no
\* element other than zero.
C8_ZeroExtentIsNoOp ==
  (op # "none" /\ ValidationPassed /\ HasZeroExtent) =>
     /\ pc # "crashed"
     /\ ~ub
     /\ status = "OK"
     /\ pc = "done" => \A x \in 1..Len(output) : output[x] = 0

\* C9: in every invocation that passed validation and reached the offset
\* computation, num_slices_per_batch * num_batches = num_slices, and
\* num_slices_per_batch is not zero when there is a slice.
C9_SlicesDivideEvenlyAmongBatches ==
  (op # "none" /\ ValidationPassed /\ pc \in {"running", "done"}) =>
     /\ num_slices_per_batch * BatchCount = SliceCount
     /\ SliceCount > 0 => num_slices_per_batch # 0

\* C10: in every gather_grad that passed validation and reached the scatter
\* kernel, the updates shape is the forward output shape, so the updates buffer
\* holds exactly num_slices * slice_size elements.
C10_UpdatesShapeIsForwardShape ==
  (op = "grad" /\ training /\ ValidationPassed /\ pc \in {"running", "done"}) =>
     /\ update_shape = SubSeq(indices_shape, 1, Len(indices_shape) - 1)
                       \o SubSeq(input_shape, batch_dims + TupleLen + 1, Len(input_shape))
     /\ Len(kernel_input) = SliceCount * SliceLen

(* ---------------------------------- CheckBatchDimensionsMatch on its own *)

\* The tensors (1-based) of rank below the batch dimension count.
ShortTensors == {t \in 1..Len(chk_shapes) : Len(chk_shapes[t]) < chk_nb}

\* The (axis, tensor) pairs, 0-based, at which a later shape differs from the first.
Mismatches ==
  {m \in (0..(chk_nb - 1)) \X (1..(Len(chk_shapes) - 1)) :
     chk_shapes[m[2] + 1][m[1] + 1] # chk_shapes[1][m[1] + 1]}

\* The mismatch with the smallest axis and, on that axis, the smallest tensor.
FirstMismatch ==
  CHOOSE m \in Mismatches :
    \A n \in Mismatches : m[1] < n[1] \/ (m[1] = n[1] /\ m[2] <= n[2])

\* C6: RankTooSmall exactly when some shape has rank < b, before any extent is
\* compared; otherwise BatchMismatch exactly when some later shape differs from the
\* first on a batch axis, reporting the smallest such axis, the smallest tensor on
\* that axis and the two extents; otherwise success.
C6_ValidateResult ==
  chk_result # Pending =>
     IF ShortTensors # {} THEN chk_result.kind = "RankTooSmall"
     ELSE IF Mismatches # {}
          THEN /\ chk_result.kind = "BatchMismatch"
               /\ chk_result.axis = FirstMismatch[1]
               /\ chk_result.tensor = FirstMismatch[2]
               /\ chk_result.first = chk_shapes[1][FirstMismatch[1] + 1]
               /\ chk_result.other = chk_shapes[FirstMismatch[2] + 1][FirstMismatch[1] + 1]
     ELSE chk_result = StatusOK

\* C6 witness: a mismatch is reported although an earlier tensor mismatches too,
\* on a later axis.
C6_Witness ==
  /\ chk_result.kind = "BatchMismatch"
  /\ \E n \in Mismatches : n[2] < chk_result.tensor /\ n[1] > chk_result.axis

\* C7 as stated: with fewer than two shapes the validator succeeds, whatever the
\* batch dimension count and the shape.
C7_FewerThanTwoShapesSucceeds ==
  (chk_result # Pending /\ Len(chk_shapes) < 2) => chk_result = StatusOK

\* C7 amended: with fewer than two shapes the validator compares no extents; it
\* succeeds exactly when the single shape, if there is one, has rank >=
\* num_batch_dims, and fails with RankTooSmall otherwise.
C7_FewerThanTwoShapesOnlyRankChecked ==
  (chk_result # Pending /\ Len(chk_shapes) < 2) =>
     IF \A t \in 1..Len(chk_shapes) : Len(chk_shapes[t]) >= chk_nb
     THEN chk_result = StatusOK
     ELSE chk_result = RankTooSmall(0)

\* C7 witness: a single shape of rank equal to a positive batch dimension count
\* has been accepted.
C7_Witness ==
  /\ Len(chk_shapes) = 1
  /\ chk_nb >= 1
  /\ Len(chk_shapes[1]) = chk_nb
  /\ chk_result = StatusOK

====
